---- MODULE Spec2Model ----
(***************************************************************************)
(* Model of net.c (the Net puzzle): grid generation (new_game), the        *)
(* connectivity check (compute_active) and the move processor (make_move). *)
(***************************************************************************)
EXTENDS Integers, Naturals, Sequences, FiniteSets, TLC

(***************************************************************************)
(* Bounds of the model.                                                    *)
(***************************************************************************)
\* Boards have width 3..MaxWidth and height 3..MaxHeight.
MaxWidth == 4
MaxHeight == 3
\* barrier_probability ranges over the fractions 0/PDen .. PDen/PDen.
PDen == 2
\* Seeds are the numbers 0..MaxSeed.
MaxSeed == 3
\* Boards of at most FullCells cells are also generated under every possible
\* sequence of draws, not only under the seeded generator.
FullCells == 9
\* Number of make_move calls explored after generation.
MaxMoves == 2
\* Number of clicks on one tile explored after generation.
MaxPresses == 4

(***************************************************************************)
(* Direction bitfields and the tile geometry constants.                    *)
(***************************************************************************)
R == 1
U == 2
L == 4
D == 8
LOCKED == 16
TILE_SIZE == 32
TILE_BORDER == 1
WINDOW_OFFSET == 16

Dirs == <<R, U, L, D>>
DirSet == {R, U, L, D}

\* Bit k (value 2^k given as its weight d) of the byte m.
HasBit(m, d) == (m \div d) % 2 = 1
BitOr(m, d) == IF HasBit(m, d) THEN m ELSE m + d
BitXor1(m, d) == IF HasBit(m, d) THEN m - d ELSE m + d
\* 0x0F ^ m, bit by bit over the five bits a tile byte uses.
Xor0F(m) == BitXor1(BitXor1(BitXor1(BitXor1(m, 1), 2), 4), 8)

\* Rotations: Anticlockwise, Clockwise, Flip, general rotate.
A(x) == ((x % 8) * 2) + ((x \div 8) % 2)
C(x) == ((x % 16) \div 2) + ((x % 2) * 8)
FlipAsClockwise(x) == ((x % 16) \div 2) + ((x % 2) * 8)
F(x) == ((x % 16) \div 4) + ((x % 4) * 4)
ROT(x, n) == IF n % 4 = 0 THEN x
             ELSE IF n % 4 = 1 THEN A(x)
             ELSE IF n % 4 = 2 THEN F(x) ELSE C(x)

\* X and Y displacements.
X(d) == IF d = R THEN 1 ELSE IF d = L THEN -1 ELSE 0
Y(d) == IF d = D THEN 1 ELSE IF d = U THEN -1 ELSE 0

\* Bit count of the four direction bits.
COUNT(x) == ((x \div 8) % 2) + ((x \div 4) % 2) + ((x \div 2) % 2) + (x % 2)

\* OFFSET(x2,y2,x1,y1,dir,state): the neighbour, always taken modulo the size.
OFFSET(x1, y1, dir, state) ==
    << (x1 + state.width + X(dir)) % state.width,
       (y1 + state.height + Y(dir)) % state.height >>

\* index(state, a, x, y): the array offset of cell (x, y).
index(state, x, y) == y * state.width + x
NCells(state) == state.width * state.height
InArray(state, i) == i >= 0 /\ i < NCells(state)
tile(state, x, y) == state.tiles[index(state, x, y)]
barrier(state, x, y) == state.barriers[index(state, x, y)]

\* xyd_cmp: order by x, then y, then direction.
xyd_less(a, b) ==
    \/ a[1] < b[1]
    \/ a[1] = b[1] /\ a[2] < b[2]
    \/ a[1] = b[1] /\ a[2] = b[2] /\ a[3] < b[3]

\* delpos234(t, i): the element at position i of the sorted set.
pos234(t, i) == CHOOSE e \in t : Cardinality({f \in t : xyd_less(f, e)}) = i

\* The random number generator: random_init(seed) gives a generator state,
\* every draw advances it, and random_upto(rs, n) is the draw in [0, n) the
\* advanced state gives.  The same seed gives the same sequence of draws.
random_init(seed) == seed
random_next(rs) == (rs * 37 + 11) % 1024
random_upto(rs, n) == (random_next(rs) \div 16) % n
Seeds == 0..MaxSeed

\* game_params: barrier_probability is bp / PDen.
Params ==
    [width : 3..MaxWidth, height : 3..MaxHeight, wrapping : BOOLEAN, bp : 0..PDen]

(***************************************************************************)
(* new_game, lines 125-139 and 158: a blank state, the generator seeded.   *)
(***************************************************************************)
BlankState(params) ==
    [width |-> params.width, height |-> params.height,
     wrapping |-> params.wrapping, completed |-> FALSE,
     tiles |-> [i \in 0..(params.width * params.height - 1) |-> 0],
     barriers |-> [i \in 0..(params.width * params.height - 1) |-> 0]]

\* The locals of one call of new_game.  unshuffled keeps the tile array as it
\* was when the spanning tree was finished; oob keeps the array offsets
\* written outside the barrier array; iterations counts the iterations of the
\* spanning-tree loop.
NewFrame(params, seed) ==
    [pc |-> "borders", params |-> params, seed |-> seed,
     rs |-> random_init(seed), state |-> BlankState(params),
     possibilities |-> {}, barriers |-> {}, nbarriers |-> 0,
     x |-> 0, y |-> 0, oob |-> {}, unshuffled |-> <<>>, iterations |-> 0]

\* The order in which new_game runs its blocks.
PhaseOrderSwapped == << "borders", "tree", "barriers", "shuffle", "done" >>
PhaseOrder == << "borders", "tree", "shuffle", "barriers", "done" >>

PhaseAfter(pc) ==
    PhaseOrder[1 + CHOOSE k \in 1..(Len(PhaseOrder) - 1) : PhaseOrder[k] = pc]

(***************************************************************************)
(* new_game, lines 144-153: border barriers of a non-wrapping game.  The   *)
(* second loop passes (y, 0) and (y, width-1) to barrier(state, x, y).     *)
(***************************************************************************)
\* The writes barrier(state, x, y) |= d the two loops make, in order.
BorderWrites(state) ==
    [k \in 1..(2 * state.width) |->
        IF k % 2 = 1 THEN << (k - 1) \div 2, 0, U >>
        ELSE << (k - 1) \div 2, state.height - 1, D >>]
    \o [k \in 1..(2 * state.height) |->
        IF k % 2 = 1 THEN << (k - 1) \div 2, 0, L >>
        ELSE << (k - 1) \div 2, state.width - 1, R >>]

\* The writes in order; one that falls outside the array leaves it alone.
RECURSIVE ApplyWrites(_, _, _)
ApplyWrites(state, barr, ws) ==
    IF ws = <<>> THEN barr
    ELSE LET w == Head(ws)
             i == index(state, w[1], w[2])
         IN ApplyWrites(state,
                IF InArray(state, i) THEN [barr EXCEPT ![i] = BitOr(@, w[3])]
                ELSE barr,
                Tail(ws))

\* The array offsets the border loops write that lie outside the array.
BorderOutOfBounds(state) ==
    {index(state, BorderWrites(state)[k][1], BorderWrites(state)[k][2]) :
        k \in 1..Len(BorderWrites(state))} \ (0..(NCells(state) - 1))

\* Lines 202-206.
InitialPossibilities(w, h) ==
    {<< w \div 2, h \div 2, d >> : d \in DirSet}

SetBorders(f) ==
    LET st == f.state
        b == IF st.wrapping THEN st.barriers
             ELSE ApplyWrites(st, st.barriers, BorderWrites(st))
        o == IF st.wrapping THEN {} ELSE BorderOutOfBounds(st)
    IN [f EXCEPT !.state.barriers = b, !.oob = o, !.pc = PhaseAfter("borders"),
                 !.possibilities = InitialPossibilities(st.width, st.height)]

(***************************************************************************)
(* new_game, lines 208-320: one iteration of the spanning-tree loop, for   *)
(* the position i that random_upto returned.                               *)
(***************************************************************************)
\* Lines 242-259: after a T-piece, drop the candidate for its fourth arm.
RemoveTPieceNever(poss, state, x1, y1) == poss
RemoveTPiece(poss, state, x1, y1) ==
    IF COUNT(tile(state, x1, y1)) = 3
    THEN poss \ {<< x1, y1, Xor0F(tile(state, x1, y1)) >>}
    ELSE poss

\* Lines 265-286: drop every candidate pointing at the tile just entered.
RemovePointingNever(poss, state, x2, y2) == poss
RemovePointing(poss, state, x2, y2) ==
    poss \ {<< OFFSET(x2, y2, d, state)[1], OFFSET(x2, y2, d, state)[2], F(d) >> :
                d \in DirSet}

\* Lines 298-307: directions that leave a non-wrapping board.
LeavesBoard(state, x2, y2, d) ==
    /\ ~state.wrapping
    /\ \/ d = U /\ y2 = 0
       \/ d = D /\ y2 = state.height - 1
       \/ d = L /\ x2 = 0
       \/ d = R /\ x2 = state.width - 1

\* Lines 292-319: new candidates out of the tile just entered.
NewFrontier(state, x2, y2, d2) ==
    {<< x2, y2, d >> : d \in
        {d \in DirSet :
            /\ d # d2
            /\ ~LeavesBoard(state, x2, y2, d)
            /\ tile(state, OFFSET(x2, y2, d, state)[1],
                           OFFSET(x2, y2, d, state)[2]) = 0}}

\* The loop body; the assertion of line 235 stops the program when it fails.
TreeIter(f, i) ==
    LET xyd == pos234(f.possibilities, i)
        x1 == xyd[1]
        y1 == xyd[2]
        d1 == xyd[3]
        p1 == f.possibilities \ {xyd}
        o == OFFSET(x1, y1, d1, f.state)
        x2 == o[1]
        y2 == o[2]
        d2 == F(d1)
        s1 == [f.state EXCEPT !.tiles[index(f.state, x1, y1)] = BitOr(@, d1)]
    IN IF tile(s1, x2, y2) # 0
       THEN [f EXCEPT !.state = s1, !.possibilities = p1, !.pc = "assert_tile",
                      !.iterations = f.iterations + 1]
       ELSE LET s2 == [s1 EXCEPT !.tiles[index(s1, x2, y2)] = BitOr(@, d2)]
                p2 == RemoveTPiece(p1, s2, x1, y1)
                p3 == RemovePointing(p2, s2, x2, y2)
                p4 == p3 \cup NewFrontier(s2, x2, y2, d2)
            IN [f EXCEPT !.state = s2, !.possibilities = p4,
                         !.iterations = f.iterations + 1]

\* Lines 216-217 with the seeded generator.
TreeDraw(f) ==
    [TreeIter(f, random_upto(f.rs, Cardinality(f.possibilities)))
        EXCEPT !.rs = random_next(f.rs)]

(***************************************************************************)
(* new_game, lines 322-337: the loop is over; list the barrier candidates. *)
(***************************************************************************)
\* !state->wrapping as the integer the loop bounds subtract.
NotWrapping(state) == IF state.wrapping THEN 0 ELSE 1

BarrierCandidates(state) ==
    LET cells == {<< x, y >> \in
                    (0..(state.width - NotWrapping(state) - 1)) \X
                    (0..(state.height - NotWrapping(state) - 1)) : TRUE}
    IN {<< c[1], c[2], R >> : c \in {c \in cells : ~HasBit(tile(state, c[1], c[2]), R)}}
       \cup
       {<< c[1], c[2], D >> : c \in {c \in cells : ~HasBit(tile(state, c[1], c[2]), D)}}

\* Lines 364-365.
NBarriersInverted(bp, count) == count - ((bp * count) \div PDen)
NBarriers(bp, count) == (bp * count) \div PDen

\* Entering a block of new_game: the statements that precede its loop.
Enter(f, pc) ==
    IF pc = "shuffle" THEN [f EXCEPT !.pc = pc, !.x = 0, !.y = 0]
    ELSE IF pc = "barriers"
    THEN [f EXCEPT !.pc = pc,
                   !.nbarriers = NBarriers(f.params.bp, Cardinality(f.barriers))]
    ELSE [f EXCEPT !.pc = pc, !.barriers = {}, !.possibilities = {},
                   !.nbarriers = 0, !.x = 0, !.y = 0]

TreeEnd(f) ==
    Enter([f EXCEPT !.barriers = BarrierCandidates(f.state),
                    !.unshuffled = f.state.tiles],
          PhaseAfter("tree"))

(***************************************************************************)
(* new_game, lines 342-348: the shuffle, one cell (f.x, f.y) per step.     *)
(***************************************************************************)
ShuffleCell(f) ==
    LET orig == tile(f.state, f.x, f.y)
        rot == random_upto(f.rs, 4)
        last == f.x + 1 >= f.state.width - NotWrapping(f.state)
    IN [f EXCEPT !.state.tiles[index(f.state, f.x, f.y)] = ROT(orig, rot),
                 !.rs = random_next(f.rs),
                 !.x = IF last THEN 0 ELSE f.x + 1,
                 !.y = IF last THEN f.y + 1 ELSE f.y]

ShuffleOver(f) == f.y >= f.state.height - NotWrapping(f.state)

(***************************************************************************)
(* new_game, lines 367-392: one barrier placed per iteration.              *)
(***************************************************************************)
PlaceBarrier(f) ==
    LET i == random_upto(f.rs, Cardinality(f.barriers))
        xyd == pos234(f.barriers, i)
        x1 == xyd[1]
        y1 == xyd[2]
        d1 == xyd[3]
        o == OFFSET(x1, y1, d1, f.state)
        d2 == F(d1)
        b1 == [f.state.barriers EXCEPT ![index(f.state, x1, y1)] = BitOr(@, d1)]
        b2 == [b1 EXCEPT ![index(f.state, o[1], o[2])] = BitOr(@, d2)]
    IN [f EXCEPT !.state.barriers = b2, !.barriers = f.barriers \ {xyd},
                 !.rs = random_next(f.rs), !.nbarriers = f.nbarriers - 1]

(***************************************************************************)
(* One step of new_game under the seeded generator.                        *)
(***************************************************************************)
Running(f) == f.pc \in {"borders", "tree", "shuffle", "barriers"}

GenStep(f) ==
    IF f.pc = "borders" THEN SetBorders(f)
    ELSE IF f.pc = "tree"
    THEN (IF Cardinality(f.possibilities) > 0 THEN TreeDraw(f) ELSE TreeEnd(f))
    ELSE IF f.pc = "shuffle"
    THEN (IF ShuffleOver(f) THEN Enter(f, PhaseAfter("shuffle")) ELSE ShuffleCell(f))
    ELSE IF f.pc = "barriers"
    THEN (IF f.nbarriers > 0 THEN PlaceBarrier(f) ELSE Enter(f, PhaseAfter("barriers")))
    ELSE f

(***************************************************************************)
(* compute_active, lines 446-493: the cells reachable from the centre.     *)
(* todo is kept sorted by xyd_cmp and its smallest element is taken first. *)
(* The value is the active array and the list of the marking steps         *)
(* << x1, y1, d1, x2, y2 >> in the order the loop made them.               *)
(***************************************************************************)
\* Lines 479-482: the test that lets (x1, y1) mark its neighbour in d1.
Connected(state, active, x1, y1, d1) ==
    LET o == OFFSET(x1, y1, d1, state)
    IN /\ HasBit(tile(state, x1, y1), d1)
       /\ HasBit(tile(state, o[1], o[2]), F(d1))
       /\ ~HasBit(barrier(state, x1, y1), d1)
       /\ active[index(state, o[1], o[2])] = 0

\* Lines 469-486: the four directions out of (x1, y1), from direction k on.
RECURSIVE Examine(_, _, _, _, _)
Examine(state, acc, x1, y1, k) ==
    IF k > Len(Dirs) THEN acc
    ELSE LET d1 == Dirs[k]
             o == OFFSET(x1, y1, d1, state)
         IN IF Connected(state, acc.active, x1, y1, d1)
            THEN Examine(state,
                    [active |-> [acc.active EXCEPT ![index(state, o[1], o[2])] = 1],
                     todo |-> acc.todo \cup {<< o[1], o[2], 0 >>},
                     marks |-> Append(acc.marks, << x1, y1, d1, o[1], o[2] >>)],
                    x1, y1, k + 1)
            ELSE Examine(state, acc, x1, y1, k + 1)

\* Lines 462-487: the loop over todo.
RECURSIVE ActiveLoop(_, _)
ActiveLoop(state, acc) ==
    IF acc.todo = {} THEN acc
    ELSE LET xyd == pos234(acc.todo, 0)
         IN ActiveLoop(state,
                Examine(state, [acc EXCEPT !.todo = acc.todo \ {xyd}],
                        xyd[1], xyd[2], 1))

ActiveRun(state) ==
    ActiveLoop(state,
        [active |-> [i \in 0..(NCells(state) - 1) |-> 0],
         todo |-> {<< state.width \div 2, state.height \div 2, 0 >>},
         marks |-> <<>>])

compute_active(state) == ActiveRun(state).active

(***************************************************************************)
(* dup_game and make_move, lines 411-426 and 498-583.  The value of        *)
(* make_move is the state returned, or null, and the line it returned at.  *)
(***************************************************************************)
Buttons == {"LEFT_BUTTON", "MIDDLE_BUTTON", "RIGHT_BUTTON", "OTHER"}

DupGameNotCompleted(state) ==
    [width |-> state.width, height |-> state.height,
     wrapping |-> state.wrapping, completed |-> FALSE,
     tiles |-> state.tiles, barriers |-> state.barriers]
dup_game(state) ==
    [width |-> state.width, height |-> state.height,
     wrapping |-> state.wrapping, completed |-> state.completed,
     tiles |-> state.tiles, barriers |-> state.barriers]

Null(state, line) == [null |-> TRUE, state |-> state, line |-> line]

\* Lines 563-580.
CompleteNever(state) == FALSE
Complete(state) ==
    LET active == compute_active(state)
    IN \A i \in 0..(NCells(state) - 1) : active[i] # 0

\* Line 546.
LockedTileIgnored(state, tx, ty) == FALSE
LockedTile(state, tx, ty) == HasBit(tile(state, tx, ty), LOCKED)

\* Lines 553-558.
RotateBothClockwise(orig, button) == C(orig)
Rotate(orig, button) == IF button = "LEFT_BUTTON" THEN A(orig) ELSE C(orig)

\* Line 516.
LeftOfGridOnly(x, y) == x < 0
BeforeGrid(x, y) == x < 0 \/ y < 0

\* Integer division as C does it: the quotient is truncated toward zero.
IntDiv(a, b) == IF a >= 0 THEN a \div b ELSE 0 - ((0 - a) \div b)

make_move(state, px, py, button) ==
    LET x == px - WINDOW_OFFSET
        y == py - WINDOW_OFFSET
        tx == IntDiv(x, TILE_SIZE)
        ty == IntDiv(y, TILE_SIZE)
    IN IF button \notin {"LEFT_BUTTON", "MIDDLE_BUTTON", "RIGHT_BUTTON"}
       THEN Null(state, 509)
       ELSE IF BeforeGrid(x, y) THEN Null(state, 517)
       ELSE IF tx >= state.width \/ ty >= state.height THEN Null(state, 521)
       ELSE IF \/ tx % TILE_SIZE >= TILE_SIZE - TILE_BORDER
               \/ ty % TILE_SIZE >= TILE_SIZE - TILE_BORDER
       THEN Null(state, 524)
       ELSE IF button = "MIDDLE_BUTTON"
       THEN [null |-> FALSE, line |-> 539,
             state |-> [dup_game(state) EXCEPT
                          !.tiles[index(state, tx, ty)] = BitXor1(@, LOCKED)]]
       ELSE IF LockedTile(state, tx, ty) THEN Null(state, 547)
       ELSE LET ret == [dup_game(state) EXCEPT
                          !.tiles[index(state, tx, ty)] = Rotate(@, button)]
            IN [null |-> FALSE, line |-> 582,
                state |-> IF Complete(ret) THEN [ret EXCEPT !.completed = TRUE]
                          ELSE ret]

\* The pixel of tile (tx, ty) at offset (ox, oy) inside the tile.
Pixel(t, o) == WINDOW_OFFSET + t * TILE_SIZE + o

\* The game state in memory: mem is the sequence of the allocated blocks, a
\* block's address is its position, and the tiles and barriers fields of a
\* game_state hold addresses.  Deref reads the arrays a state points to.
Deref(mem, st) ==
    [width |-> st.width, height |-> st.height, wrapping |-> st.wrapping,
     completed |-> st.completed, tiles |-> mem[st.tiles],
     barriers |-> mem[st.barriers]]

\* dup_game, lines 411-426: two new blocks, filled by memcpy.
DupGameShared(mem, st) == [mem |-> mem, ret |-> st]
dup_game_mem(mem, st) ==
    LET m1 == Append(mem, mem[st.tiles])
        m2 == Append(m1, m1[st.barriers])
    IN [mem |-> m2, ret |-> [st EXCEPT !.tiles = Len(m1), !.barriers = Len(m2)]]

\* make_move, lines 498-583, on the memory: the memory after the call and
\* the state returned (a state holding addresses), or null.
make_move_mem(mem, st, px, py, button) ==
    LET x == px - WINDOW_OFFSET
        y == py - WINDOW_OFFSET
        tx == IntDiv(x, TILE_SIZE)
        ty == IntDiv(y, TILE_SIZE)
        none == [null |-> TRUE, mem |-> mem, ret |-> st]
    IN IF button \notin {"LEFT_BUTTON", "MIDDLE_BUTTON", "RIGHT_BUTTON"}
       THEN none
       ELSE IF BeforeGrid(x, y) THEN none
       ELSE IF tx >= st.width \/ ty >= st.height THEN none
       ELSE IF \/ tx % TILE_SIZE >= TILE_SIZE - TILE_BORDER
               \/ ty % TILE_SIZE >= TILE_SIZE - TILE_BORDER
       THEN none
       ELSE IF button = "MIDDLE_BUTTON"
       THEN LET d == dup_game_mem(mem, st)
            IN [null |-> FALSE, ret |-> d.ret,
                mem |-> [d.mem EXCEPT ![d.ret.tiles][index(st, tx, ty)] =
                                          BitXor1(@, LOCKED)]]
       ELSE IF HasBit(mem[st.tiles][index(st, tx, ty)], LOCKED) THEN none
       ELSE LET d == dup_game_mem(mem, st)
                m == [d.mem EXCEPT ![d.ret.tiles][index(st, tx, ty)] =
                                       Rotate(@, button)]
            IN [null |-> FALSE, mem |-> m,
                ret |-> IF Complete(Deref(m, d.ret))
                        THEN [d.ret EXCEPT !.completed = TRUE] ELSE d.ret]

\* The clicks the player makes: the corner of every tile, of the tiles one
\* past the right and the bottom edge, and one pixel left of and above the
\* grid.
ClickCoords(n) == {WINDOW_OFFSET - 1} \cup {Pixel(t, 0) : t \in 0..n}

\* Pixels on both sides of every test of lines 514-524: left of and above
\* the window offset, and the first, the last but one and the last pixel
\* of every tile and of the tile past the edge.
PixelSamples(n) ==
    {0, WINDOW_OFFSET - 1}
        \cup {Pixel(t, o) : t \in 0..n, o \in {0, TILE_SIZE - 2, TILE_SIZE - 1}}

VARIABLES ng, ng2, cur, last, nmoves, presses, focus

vars == << ng, ng2, cur, last, nmoves, presses, focus >>

\* No second call of new_game, no game in play.
NoFrame == [pc |-> "none"]
NoState == [width |-> 0, height |-> 0, wrapping |-> FALSE, completed |-> FALSE,
            tiles |-> <<>>, barriers |-> <<>>]

Small(params) == params.width * params.height <= FullCells

\* ------------------------------------------------------------------------
\* SpecTree: the spanning tree under every sequence of draws (boards of at
\* most FullCells cells) and under the seeded generator (larger boards).
\* ------------------------------------------------------------------------
InitTree ==
    /\ ng \in {NewFrame(p, s) : p \in {q \in Params : q.bp = 0},
                               s \in Seeds}
    /\ Small(ng.params) => ng.seed = 0
    /\ ng2 = NoFrame
    /\ cur = NoState
    /\ last = 0
    /\ nmoves = 0
    /\ presses = << >>
    /\ focus = << >>

\* Lines 144-158.  A write outside the barrier array is undefined: the
\* program either stops there or goes on with both arrays as they are.
Borders ==
    /\ ng.pc = "borders"
    /\ \/ ng' = SetBorders(ng)
       \/ /\ SetBorders(ng).oob # {}
          /\ ng' = [ng EXCEPT !.pc = "crash", !.oob = SetBorders(ng).oob]
    /\ UNCHANGED << ng2, cur, last, nmoves, presses, focus >>

TreeStepAny ==
    /\ ng.pc = "tree"
    /\ Small(ng.params)
    /\ Cardinality(ng.possibilities) > 0
    /\ \E i \in 0..(Cardinality(ng.possibilities) - 1) : ng' = TreeIter(ng, i)
    /\ UNCHANGED << ng2, cur, last, nmoves, presses, focus >>

TreeStepSeeded ==
    /\ ng.pc = "tree"
    /\ ~Small(ng.params)
    /\ Cardinality(ng.possibilities) > 0
    /\ ng' = TreeDraw(ng)
    /\ UNCHANGED << ng2, cur, last, nmoves, presses, focus >>

TreeDone ==
    /\ ng.pc = "tree"
    /\ Cardinality(ng.possibilities) = 0
    /\ ng' = TreeEnd(ng)
    /\ UNCHANGED << ng2, cur, last, nmoves, presses, focus >>

NextTree == Borders \/ TreeStepAny \/ TreeStepSeeded \/ TreeDone

SpecTree == InitTree /\ [][NextTree]_vars

\* ------------------------------------------------------------------------
\* Spec: new_game under the seeded generator, then the player's moves.
\* ------------------------------------------------------------------------
Init ==
    /\ ng \in {NewFrame(p, s) : p \in Params, s \in Seeds}
    /\ ng2 = NoFrame
    /\ cur = NoState
    /\ last = 0
    /\ nmoves = 0
    /\ presses = << >>
    /\ focus = << >>

TreeStep ==
    /\ ng.pc = "tree"
    /\ Cardinality(ng.possibilities) > 0
    /\ ng' = TreeDraw(ng)
    /\ UNCHANGED << ng2, cur, last, nmoves, presses, focus >>

ShuffleStep ==
    /\ ng.pc = "shuffle"
    /\ ~ShuffleOver(ng)
    /\ ng' = ShuffleCell(ng)
    /\ UNCHANGED << ng2, cur, last, nmoves, presses, focus >>

ShuffleDone ==
    /\ ng.pc = "shuffle"
    /\ ShuffleOver(ng)
    /\ ng' = Enter(ng, PhaseAfter("shuffle"))
    /\ UNCHANGED << ng2, cur, last, nmoves, presses, focus >>

BarrierStep ==
    /\ ng.pc = "barriers"
    /\ ng.nbarriers > 0
    /\ ng' = PlaceBarrier(ng)
    /\ UNCHANGED << ng2, cur, last, nmoves, presses, focus >>

BarrierDone ==
    /\ ng.pc = "barriers"
    /\ ng.nbarriers = 0
    /\ ng' = Enter(ng, PhaseAfter("barriers"))
    /\ UNCHANGED << ng2, cur, last, nmoves, presses, focus >>

\* Lines 406-408: the caller takes the state new_game returns.
Return ==
    /\ ng.pc = "done"
    /\ ng' = [ng EXCEPT !.pc = "returned"]
    /\ cur' = ng.state
    /\ UNCHANGED << ng2, last, nmoves, presses, focus >>

\* A call of make_move on the caller's state; the caller keeps its state
\* when the call returns null and takes the returned state otherwise.
Move ==
    /\ ng.pc = "returned"
    /\ nmoves < MaxMoves
    /\ \E px \in ClickCoords(cur.width), py \in ClickCoords(cur.height),
          button \in Buttons :
          LET r == make_move(cur, px, py, button)
          IN /\ cur' = IF r.null THEN cur ELSE r.state
             /\ last' = r.line
    /\ nmoves' = nmoves + 1
    /\ UNCHANGED << ng, ng2, presses, focus >>

Next ==
    \/ Borders
    \/ TreeStep
    \/ TreeDone
    \/ ShuffleStep
    \/ ShuffleDone
    \/ BarrierStep
    \/ BarrierDone
    \/ Return
    \/ Move

Spec == Init /\ [][Next]_vars

\* ------------------------------------------------------------------------
\* SpecGen: new_game alone, under the seeded generator.
\* ------------------------------------------------------------------------
NextGen ==
    \/ Borders
    \/ TreeStep
    \/ TreeDone
    \/ ShuffleStep
    \/ ShuffleDone
    \/ BarrierStep
    \/ BarrierDone
    \/ Return

SpecGen == Init /\ [][NextGen]_vars

\* ------------------------------------------------------------------------
\* SpecPair: new_game called twice with the same seed, width, height and
\* wrapping, and barrier probabilities of its own for each call.  The two
\* calls advance together, one step each.
\* ------------------------------------------------------------------------
InitPair ==
    /\ \E p \in Params, bp2 \in 0..PDen, s \in Seeds :
          /\ ng = NewFrame(p, s)
          /\ ng2 = NewFrame([p EXCEPT !.bp = bp2], s)
    /\ cur = NoState
    /\ last = 0
    /\ nmoves = 0
    /\ presses = << >>
    /\ focus = << >>

PairStep ==
    /\ Running(ng) \/ Running(ng2)
    /\ ng' = GenStep(ng)
    /\ ng2' = GenStep(ng2)
    /\ UNCHANGED << cur, last, nmoves, presses, focus >>

\* The out-of-bounds write stops both calls: they run the same build.
PairCrash ==
    /\ ng.pc = "borders"
    /\ SetBorders(ng).oob # {}
    /\ ng' = [ng EXCEPT !.pc = "crash", !.oob = SetBorders(ng).oob]
    /\ ng2' = [ng2 EXCEPT !.pc = "crash", !.oob = SetBorders(ng2).oob]
    /\ UNCHANGED << cur, last, nmoves, presses, focus >>

NextPair == PairStep \/ PairCrash

SpecPair == InitPair /\ [][NextPair]_vars

\* ------------------------------------------------------------------------
\* SpecPress: new_game under the seeded generator, then up to MaxPresses
\* clicks on one tile, all with the same rotate button, or a left click and
\* then a right click.  presses lists the clicks << tx, ty, button >>.
\* ------------------------------------------------------------------------
Press ==
    /\ ng.pc = "returned"
    /\ Len(presses) < MaxPresses
    /\ \E tx \in 0..(cur.width - 1), ty \in 0..(cur.height - 1),
          button \in {"LEFT_BUTTON", "RIGHT_BUTTON"} :
          /\ presses # << >> =>
                /\ tx = presses[1][1] /\ ty = presses[1][2]
                /\ \/ button = presses[1][3]
                   \/ presses = << << tx, ty, "LEFT_BUTTON" >> >>
          /\ LET r == make_move(cur, Pixel(tx, 0), Pixel(ty, 0), button)
             IN /\ cur' = IF r.null THEN cur ELSE r.state
                /\ last' = r.line
          /\ presses' = Append(presses, << tx, ty, button >>)
    /\ UNCHANGED << ng, ng2, nmoves, focus >>

NextPress ==
    \/ Borders
    \/ TreeStep
    \/ TreeDone
    \/ ShuffleStep
    \/ ShuffleDone
    \/ BarrierStep
    \/ BarrierDone
    \/ Return
    \/ Press

SpecPress == Init /\ [][NextPress]_vars

\* ------------------------------------------------------------------------
\* SpecTile: new_game under the seeded generator, then any number of
\* clicks with the three buttons, all on the tile focus the first one hit.
\* ------------------------------------------------------------------------
Click ==
    /\ ng.pc = "returned"
    /\ \E tx \in 0..(cur.width - 1), ty \in 0..(cur.height - 1),
          button \in {"LEFT_BUTTON", "MIDDLE_BUTTON", "RIGHT_BUTTON"} :
          /\ focus # << >> => focus = << tx, ty >>
          /\ LET r == make_move(cur, Pixel(tx, 0), Pixel(ty, 0), button)
             IN /\ cur' = IF r.null THEN cur ELSE r.state
                /\ last' = r.line
          /\ focus' = << tx, ty >>
    /\ UNCHANGED << ng, ng2, nmoves, presses >>

NextTile ==
    \/ Borders
    \/ TreeStep
    \/ TreeDone
    \/ ShuffleStep
    \/ ShuffleDone
    \/ BarrierStep
    \/ BarrierDone
    \/ Return
    \/ Click

SpecTile == Init /\ [][NextTile]_vars

\* ------------------------------------------------------------------------
\* SpecSolve: new_game under the seeded generator, then a player who turns
\* the tiles back to the network generation built: a left click on the
\* first tile, in array order, whose mask is not the one it had before the
\* shuffle.  When no such tile is left, or the game is completed, the
\* player goes on with any number of clicks on one tile.
\* ------------------------------------------------------------------------
Misplaced(state, unshuffled) ==
    {i \in 0..(NCells(state) - 1) : state.tiles[i] % 16 # unshuffled[i] % 16}

Solving == ~cur.completed /\ Misplaced(cur, ng.unshuffled) # {}

Solve ==
    /\ ng.pc = "returned"
    /\ Solving
    /\ LET i == CHOOSE j \in Misplaced(cur, ng.unshuffled) :
                    \A k \in Misplaced(cur, ng.unshuffled) : j <= k
           r == make_move(cur, Pixel(i % cur.width, 0), Pixel(i \div cur.width, 0),
                          "LEFT_BUTTON")
       IN /\ cur' = IF r.null THEN cur ELSE r.state
          /\ last' = r.line
    /\ UNCHANGED << ng, ng2, nmoves, presses, focus >>

Play ==
    /\ ng.pc = "returned"
    /\ ~Solving
    /\ \E tx \in 0..(cur.width - 1), ty \in 0..(cur.height - 1),
          button \in {"LEFT_BUTTON", "MIDDLE_BUTTON", "RIGHT_BUTTON"} :
          /\ focus # << >> => focus = << tx, ty >>
          /\ LET r == make_move(cur, Pixel(tx, 0), Pixel(ty, 0), button)
             IN /\ cur' = IF r.null THEN cur ELSE r.state
                /\ last' = r.line
          /\ focus' = << tx, ty >>
    /\ UNCHANGED << ng, ng2, nmoves, presses >>

NextSolve ==
    \/ Borders
    \/ TreeStep
    \/ TreeDone
    \/ ShuffleStep
    \/ ShuffleDone
    \/ BarrierStep
    \/ BarrierDone
    \/ Return
    \/ Solve
    \/ Play

SpecSolve == Init /\ [][NextSolve]_vars

\* ------------------------------------------------------------------------
\* SpecClick: new_game under the seeded generator, with barrier probability
\* 1, then any number of clicks, with any button, aimed at one tile (the
\* tile focus the first click was aimed at): on it, on its margin, or level
\* with it off the grid.
\* ------------------------------------------------------------------------
\* The hit test does not read the barriers: every candidate barrier is set.
InitClick == Init /\ ng.params.bp = PDen

\* The clicks aimed at tile (tx, ty): its first pixel, its last pixel,
\* which lies in its margin, and the pixels level with it just outside the
\* four sides of the grid.
ClicksAt(state, tx, ty) ==
    {<< Pixel(tx, o), Pixel(ty, o) >> : o \in {0, TILE_SIZE - 1}}
    \cup {<< WINDOW_OFFSET - 1, Pixel(ty, 0) >>, << Pixel(tx, 0), WINDOW_OFFSET - 1 >>,
          << Pixel(state.width, 0), Pixel(ty, 0) >>,
          << Pixel(tx, 0), Pixel(state.height, 0) >>}

Point ==
    /\ ng.pc = "returned"
    /\ \E tx \in 0..(cur.width - 1), ty \in 0..(cur.height - 1), button \in Buttons :
          /\ focus # << >> => focus = << tx, ty >>
          /\ \E p \in ClicksAt(cur, tx, ty) :
                LET r == make_move(cur, p[1], p[2], button)
                IN /\ cur' = IF r.null THEN cur ELSE r.state
                   /\ last' = r.line
          /\ focus' = << tx, ty >>
    /\ UNCHANGED << ng, ng2, nmoves, presses >>

NextClick ==
    \/ Borders
    \/ TreeStep
    \/ TreeDone
    \/ ShuffleStep
    \/ ShuffleDone
    \/ BarrierStep
    \/ BarrierDone
    \/ Return
    \/ Point

SpecClick == InitClick /\ [][NextClick]_vars

(***************************************************************************)
(* Notions the properties below are stated in.                             *)
(***************************************************************************)
Opposite(d) == IF d = R THEN L ELSE IF d = L THEN R ELSE IF d = U THEN D ELSE U

Cells(state) == (0..(state.width - 1)) \X (0..(state.height - 1))

Neighbour(state, c, d) == OFFSET(c[1], c[2], d, state)

Mask(state, c) == tile(state, c[1], c[2]) % 16

\* Both ends of the edge out of c in direction d carry the pipe.
Joined(state, c, d) ==
    /\ HasBit(Mask(state, c), d)
    /\ HasBit(Mask(state, Neighbour(state, c, d)), Opposite(d))

TileSymmetric(state) ==
    \A c \in Cells(state), d \in DirSet :
        HasBit(Mask(state, c), d)
            <=> HasBit(Mask(state, Neighbour(state, c, d)), Opposite(d))

\* The cells joined to the centre by pipes, barriers ignored.
RECURSIVE Grow(_, _)
Grow(state, S) ==
    LET N == S \cup UNION {{Neighbour(state, c, d) :
                               d \in {e \in DirSet : Joined(state, c, e)}} : c \in S}
    IN IF N = S THEN S ELSE Grow(state, N)

Centre(state) == << state.width \div 2, state.height \div 2 >>

JoinedToCentre(state) == Grow(state, {Centre(state)})

\* The pipes of the network, each counted once, from its left or upper end.
Pipes(state) ==
    {e \in Cells(state) \X {R, D} : Joined(state, e[1], e[2])}

TPieces(state) == {c \in Cells(state) : COUNT(Mask(state, c)) = 3}

TreeFinished == ng.pc = "shuffle" /\ ng.x = 0 /\ ng.y = 0

(***************************************************************************)
(* C1.  The spanning-tree loop of new_game ends, for every sequence of     *)
(* draws, after at most w*h-1 iterations, none of which stops at the       *)
(* assertion; when it ends the candidate set is empty, every cell has a    *)
(* non-zero mask and is joined to the centre cell, the network has exactly *)
(* w*h-1 symmetric connections (no loop), and no tile has all four         *)
(* connection bits.                                                        *)
(***************************************************************************)
C1_SpanningTree ==
    /\ ng.pc # "assert_tile"
    /\ ng.pc = "tree" =>
          /\ ng.iterations < ng.state.width * ng.state.height
          /\ ng.possibilities = {} =>
                ng.iterations = ng.state.width * ng.state.height - 1
    /\ TreeFinished =>
          /\ ng.possibilities = {}
          /\ ng.iterations = ng.state.width * ng.state.height - 1
          /\ \A c \in Cells(ng.state) : Mask(ng.state, c) \notin {0, 15}
          /\ JoinedToCentre(ng.state) = Cells(ng.state)
          /\ TileSymmetric(ng.state)
          /\ Cardinality(Pipes(ng.state)) = ng.state.width * ng.state.height - 1

C1_Witness ==
    /\ TreeFinished
    /\ ng.state.wrapping
    /\ TPieces(ng.state) # {}

(***************************************************************************)
(* C2.  At every iteration of the spanning-tree loop, the neighbour in     *)
(* direction d1 of every candidate (x1, y1, d1) in the set has mask 0, so  *)
(* the assertion tile(x2, y2) == 0 never fails; the set is empty when the  *)
(* loop is over.                                                           *)
(***************************************************************************)
C2_TargetUnused ==
    /\ ng.pc # "assert_tile"
    /\ TreeFinished => ng.possibilities = {}
    /\ ng.pc = "tree" =>
          \A c \in ng.possibilities :
              Mask(ng.state, Neighbour(ng.state, << c[1], c[2] >>, c[3])) = 0

\* Two reached cells lie side by side without a pipe between them while
\* candidates remain: a candidate across that edge has been dropped.
C2_Witness ==
    /\ ng.pc = "tree"
    /\ ng.possibilities # {}
    /\ \E c \in Cells(ng.state), d \in DirSet :
          /\ Mask(ng.state, c) # 0
          /\ Mask(ng.state, Neighbour(ng.state, c, d)) # 0
          /\ ~LeavesBoard(ng.state, c[1], c[2], d)
          /\ ~Joined(ng.state, c, d)

(***************************************************************************)
(* C3.  As claimed: for any two adjacent cells A and B (B the neighbour of *)
(* A in direction d), A's mask contains d if and only if B's mask contains *)
(* the opposite direction, in every state during generation, in the state  *)
(* new_game returns and after every sequence of player moves.              *)
(***************************************************************************)
C3_SymmetryAlways ==
    /\ ng.pc \in {"tree", "shuffle", "barriers", "done", "returned"} =>
          TileSymmetric(ng.state)
    /\ ng.pc = "returned" => TileSymmetric(cur)

(***************************************************************************)
(* C3, amended.  The symmetry holds at every iteration of the              *)
(* spanning-tree loop and in the finished, unshuffled network.             *)
(***************************************************************************)
C3_SymmetryUntilShuffle ==
    (ng.pc = "tree" \/ TreeFinished) => TileSymmetric(ng.state)

C3_Witness ==
    /\ TreeFinished
    /\ Cardinality(TPieces(ng.state)) >= 2
    /\ \E c \in Cells(ng.state) : COUNT(Mask(ng.state, c)) = 1

(***************************************************************************)
(* C4.  In every state new_game returns, whenever a cell A has barrier bit *)
(* d set, the cell reached from A in direction d (modulo width and height) *)
(* has the opposite barrier bit set.                                       *)
(***************************************************************************)
BarrierSymmetric(state) ==
    \A c \in Cells(state), d \in DirSet :
        HasBit(barrier(state, c[1], c[2]), d) =>
            HasBit(barrier(state, Neighbour(state, c, d)[1],
                                  Neighbour(state, c, d)[2]), Opposite(d))

C4_BarrierSymmetry ==
    ng.pc \in {"done", "returned"} => BarrierSymmetric(ng.state)

(***************************************************************************)
(* C5.  On a non-wrapping board, once the border barriers are set, every   *)
(* cell (x,0) has U, every cell (x,height-1) has D, every cell (0,y) has L *)
(* and every cell (width-1,y) has R.                                       *)
(***************************************************************************)
BordersBarred(state) ==
    /\ \A x \in 0..(state.width - 1) :
          /\ HasBit(barrier(state, x, 0), U)
          /\ HasBit(barrier(state, x, state.height - 1), D)
    /\ \A y \in 0..(state.height - 1) :
          /\ HasBit(barrier(state, 0, y), L)
          /\ HasBit(barrier(state, state.width - 1, y), R)

C5_BorderBarriers ==
    (ng.pc \in {"tree", "shuffle", "barriers", "done", "returned"}
        /\ ~ng.state.wrapping) => BordersBarred(ng.state)

(***************************************************************************)
(* C6.  On a non-wrapping board, in every state reached by generation and  *)
(* any sequence of moves, compute_active marks no cell through a step that *)
(* leaves the board on one edge and enters it on the opposite edge.        *)
(***************************************************************************)
\* The marking step << x1, y1, d1, x2, y2 >> goes to the cell next to it.
StaysOnBoard(m) == m[4] = m[1] + X(m[3]) /\ m[5] = m[2] + Y(m[3])

C6_NoStepOffBoard ==
    (ng.pc = "returned" /\ ~cur.wrapping) =>
        \A k \in 1..Len(ActiveRun(cur).marks) :
            StaysOnBoard(ActiveRun(cur).marks[k])

(***************************************************************************)
(* C7.  Two calls of new_game with the same width, height, wrapping and    *)
(* seed: when the first has the smaller or equal barrier_probability,      *)
(* every barrier bit set in the state it returns is set in the state the   *)
(* second returns.                                                         *)
(***************************************************************************)
BarrierBits(state) ==
    {<< i, d >> \in (0..(NCells(state) - 1)) \X DirSet : HasBit(state.barriers[i], d)}

BothDone == ng.pc = "done" /\ ng2.pc = "done"

C7_BarrierSuperset ==
    (BothDone /\ ng.params.bp <= ng2.params.bp) =>
        BarrierBits(ng.state) \subseteq BarrierBits(ng2.state)

C7_Witness ==
    /\ BothDone
    /\ ng.params.bp < ng2.params.bp
    /\ BarrierBits(ng.state) # BarrierBits(BlankState(ng.params))
    /\ BarrierBits(ng.state) # BarrierBits(ng2.state)
    /\ \E e \in BarrierBits(ng.state) :
          ~HasBit(SetBorders(NewFrame(ng.params, ng.seed)).state.barriers[e[1]], e[2])

(***************************************************************************)
(* C8.  Two calls of new_game with the same width, height, wrapping and    *)
(* seed return the same tile array whatever their barrier probabilities.   *)
(***************************************************************************)
C8_SameTiles ==
    BothDone => ng.state.tiles = ng2.state.tiles

C8_Witness ==
    /\ BothDone
    /\ ng.params.bp # ng2.params.bp
    /\ ng.state.barriers # ng2.state.barriers
    /\ ng.state.tiles # ng.unshuffled

(***************************************************************************)
(* C9.  Four clicks with the same rotate button on a tile return its mask  *)
(* to the value it had; a left click followed by a right click on a tile   *)
(* returns its mask to the value it had.  The same holds of the rotation   *)
(* make_move applies, for each of the sixteen masks.                       *)
(***************************************************************************)
RECURSIVE Rotations(_, _, _)
Rotations(mask, button, n) ==
    IF n = 0 THEN mask ELSE Rotations(Rotate(mask, button), button, n - 1)

PressedTile == index(cur, presses[1][1], presses[1][2])

ButtonsPressed == [k \in 1..Len(presses) |-> presses[k][3]]

C9_RotationOrderFour ==
    /\ \A mask \in 0..15 :
          /\ Rotations(mask, "LEFT_BUTTON", 4) = mask
          /\ Rotations(mask, "RIGHT_BUTTON", 4) = mask
          /\ Rotate(Rotate(mask, "LEFT_BUTTON"), "RIGHT_BUTTON") = mask
    /\ (ng.pc = "returned" /\ presses # << >>) =>
          /\ (Len(presses) = 4 /\ \A k \in 1..4 : presses[k][3] = presses[1][3])
                => cur.tiles[PressedTile] = ng.state.tiles[PressedTile]
          /\ ButtonsPressed = << "LEFT_BUTTON", "RIGHT_BUTTON" >>
                => cur.tiles[PressedTile] = ng.state.tiles[PressedTile]

\* Four left clicks on a tile whose mask has four different rotations.
C9_Witness ==
    /\ ng.pc = "returned"
    /\ ButtonsPressed = << "LEFT_BUTTON", "LEFT_BUTTON", "LEFT_BUTTON", "LEFT_BUTTON" >>
    /\ COUNT(cur.tiles[PressedTile]) = 3
    /\ last = 582

(***************************************************************************)
(* C10.  A left or right click on a tile whose locked flag is set returns  *)
(* no new state; no call of make_move changes the mask of a tile that is   *)
(* locked when the call is made, and a call that returns no new state      *)
(* leaves the caller's state as it is.                                     *)
(***************************************************************************)
LockedCells(state) ==
    {c \in Cells(state) : HasBit(tile(state, c[1], c[2]), LOCKED)}

RotateRejected(state) ==
    \A c \in LockedCells(state), button \in {"LEFT_BUTTON", "RIGHT_BUTTON"} :
        /\ make_move(state, Pixel(c[1], 0), Pixel(c[2], 0), button).null
        /\ make_move(state, Pixel(c[1], 0), Pixel(c[2], 0), button).line = 547

C10_LockedTileRejected ==
    [][ng.pc = "returned" =>
          /\ RotateRejected(cur')
          /\ \A c \in LockedCells(cur) : Mask(cur', c) = Mask(cur, c)
          /\ last' \in {509, 517, 521, 524, 547} => cur' = cur]_vars

C10_Witness ==
    /\ ng.pc = "returned"
    /\ last = 547
    /\ LockedCells(cur) # {}

(***************************************************************************)
(* C11.  As claimed: in every state an accepted rotate move returns, the   *)
(* completed flag is true exactly when compute_active on that state marks  *)
(* every cell active.                                                      *)
(***************************************************************************)
AllActive(state) ==
    \A c \in Cells(state) : compute_active(state)[index(state, c[1], c[2])] # 0

C11_CompletedIffAllActive ==
    (ng.pc = "returned" /\ last = 582) => (cur.completed <=> AllActive(cur))

(***************************************************************************)
(* C11, amended.  In the state an accepted rotate move returns, the        *)
(* completed flag is true exactly when it was true in the state the move   *)
(* was made on or compute_active marks every cell of the returned state    *)
(* active.                                                                 *)
(***************************************************************************)
C11_CompletedIffSetOrAllActive ==
    [][(ng.pc = "returned" /\ last' = 582) =>
          (cur'.completed <=> (cur.completed \/ AllActive(cur')))]_vars

\* A completed game with a tile turned out of place.
C11_Witness ==
    /\ ng.pc = "returned"
    /\ last = 582
    /\ cur.completed
    /\ ~AllActive(cur)

(***************************************************************************)
(* C12.  Once completed is true, every state a later move produces has     *)
(* completed true, whether the move is a rotation or a lock toggle,        *)
(* accepted or rejected; and every click on a state that has just become   *)
(* completed, with any button, on any tile or outside the grid, returns no *)
(* state or a completed one.                                               *)
(***************************************************************************)
StaysCompleted(state) ==
    \A px \in ClickCoords(state.width), py \in ClickCoords(state.height),
       button \in Buttons :
        LET r == make_move(state, px, py, button)
        IN ~r.null => r.state.completed

C12_CompletedIsSticky ==
    [][ng.pc = "returned" =>
          /\ cur.completed => cur'.completed
          /\ (~cur.completed /\ cur'.completed) => StaysCompleted(cur')]_vars

\* A completed game in which a tile was locked and then refused to turn.
C12_Witness ==
    /\ ng.pc = "returned"
    /\ cur.completed
    /\ last = 547

(***************************************************************************)
(* C13.  For every state and every button, a click whose pixel             *)
(* coordinates, less the window offset 16, are negative on either axis or  *)
(* give a tile column >= width or a tile row >= height (tile pitch 32)     *)
(* returns no new state, and the call leaves the memory holding the input  *)
(* state as it was.                                                        *)
(***************************************************************************)
OffGrid(state, px, py) ==
    \/ px - 16 < 0
    \/ py - 16 < 0
    \/ (px - 16) \div 32 >= state.width
    \/ (py - 16) \div 32 >= state.height

\* The state in memory: its two arrays in blocks 1 and 2.
InMemory(state) == << state.tiles, state.barriers >>
Held(state) == [state EXCEPT !.tiles = 1, !.barriers = 2]

\* The pixels on both sides of the edges of a grid n tiles long.
EdgePixels(n) ==
    {0, 16 - 1, 16, 16 + 32 * n - 1, 16 + 32 * n, 16 + 32 * n + 31}

C13_OffGridClickIsNoOp ==
    ng.pc = "returned" =>
        \A px \in EdgePixels(cur.width), py \in EdgePixels(cur.height),
           button \in Buttons :
            LET r == make_move(cur, px, py, button)
                m == make_move_mem(InMemory(cur), Held(cur), px, py, button)
            IN OffGrid(cur, px, py) =>
                  /\ r.null
                  /\ r.state = cur
                  /\ m.null
                  /\ m.mem = InMemory(cur)

\* A click past the right or the bottom edge, made after an accepted move.
C13_Witness ==
    /\ ng.pc = "returned"
    /\ last = 521
    /\ cur # ng.state

(***************************************************************************)
(* C14.  For every state and every button, a click inside the grid whose   *)
(* pixel offset within its 32-pixel tile is >= 31 on either axis returns   *)
(* no new state.                                                           *)
(***************************************************************************)
InMargin(px, py) ==
    \/ (px - 16) % 32 >= 31
    \/ (py - 16) % 32 >= 31

C14_MarginClickIsNoOp ==
    ng.pc = "returned" =>
        \A px \in PixelSamples(cur.width), py \in PixelSamples(cur.height),
           button \in Buttons :
            (~OffGrid(cur, px, py) /\ InMargin(px, py)) =>
                make_move(cur, px, py, button).null

(***************************************************************************)
(* C15.  An accepted move returns a state that equals the state it was     *)
(* made on except at the targeted tile: a lock toggle flips that tile's    *)
(* locked flag and nothing else, a rotation changes that tile's connection *)
(* mask, keeps its locked flag and may set completed.  The call writes to  *)
(* new blocks only: the arrays of the input state are as they were.  The   *)
(* barrier array, width, height and wrapping flag stay those new_game      *)
(* returned along every sequence of moves.                                 *)
(***************************************************************************)
\* after is before but for the tile t, as the move returning at line allows.
FrameKept(before, after, t, line) ==
    LET i == index(before, t[1], t[2])
    IN /\ after.width = before.width
       /\ after.height = before.height
       /\ after.wrapping = before.wrapping
       /\ after.barriers = before.barriers
       /\ \A j \in 0..(NCells(before) - 1) :
             j # i => after.tiles[j] = before.tiles[j]
       /\ line = 539 =>
             /\ after.tiles[i] % 16 = before.tiles[i] % 16
             /\ HasBit(after.tiles[i], LOCKED) # HasBit(before.tiles[i], LOCKED)
             /\ after.completed = before.completed
       /\ line = 582 =>
             /\ HasBit(after.tiles[i], LOCKED) = HasBit(before.tiles[i], LOCKED)
             /\ before.completed => after.completed
       /\ line \notin {539, 582} => after = before

\* A click of each button on tile t of the state in memory.
InputKept(state, t) ==
    \A button \in Buttons :
        LET r == make_move_mem(InMemory(state), Held(state),
                               Pixel(t[1], 0), Pixel(t[2], 0), button)
            p == make_move(state, Pixel(t[1], 0), Pixel(t[2], 0), button)
        IN /\ SubSeq(r.mem, 1, 2) = InMemory(state)
           /\ r.null = p.null
           /\ ~r.null =>
                 /\ r.ret.tiles \notin {1, 2}
                 /\ r.ret.barriers \notin {1, 2}
                 /\ Deref(r.mem, r.ret) = p.state

C15_MoveChangesOneTile ==
    [][ng.pc = "returned" =>
          /\ FrameKept(cur, cur', focus', last')
          /\ InputKept(cur, focus')
          /\ cur'.barriers = ng.state.barriers
          /\ cur'.width = ng.state.width
          /\ cur'.height = ng.state.height
          /\ cur'.wrapping = ng.state.wrapping]_vars

\* A tile turned, locked and unlocked again.
C15_Witness ==
    /\ ng.pc = "returned"
    /\ last = 539
    /\ LockedCells(cur) = {}
    /\ cur.tiles # ng.state.tiles

(***************************************************************************)
(* C16.  From the state new_game returns for a 3x3 non-wrapping board with *)
(* barrier probability 0 there is a finite sequence of rotate moves after  *)
(* which completed is true: some number of left clicks on each tile, none  *)
(* of them locked, brings the board to a state the completion check of     *)
(* make_move accepts, and the move that reaches it sets completed.         *)
(***************************************************************************)
\* The state after turns[i] left clicks on the tile at array offset i.
Turned(state, turns) ==
    [state EXCEPT !.tiles = [i \in 0..(NCells(state) - 1) |->
                                Rotations(state.tiles[i], "LEFT_BUTTON", turns[i])]]

\* Some neighbour of c passes the test of lines 479-482 towards c, the active
\* bit left aside.  compute_active marks no other cell, so a board with a
\* cell that is not markable is not complete; the search below tells such
\* boards apart before it runs the completion check on the rest.
Markable(state, c) ==
    \E d \in DirSet :
        LET n == Neighbour(state, c, d)
        IN /\ HasBit(tile(state, n[1], n[2]), Opposite(d))
           /\ HasBit(tile(state, c[1], c[2]), d)
           /\ ~HasBit(barrier(state, n[1], n[2]), Opposite(d))

Solvable(state) ==
    \E turns \in [0..(NCells(state) - 1) -> 0..3] :
        LET t == Turned(state, turns)
        IN /\ \A c \in Cells(t) : Markable(t, c)
           /\ Complete(t)

C16_SolvableByRotations ==
    (/\ ng.pc = "returned"
     /\ cur.width = 3 /\ cur.height = 3 /\ ~cur.wrapping
     /\ ng.params.bp = 0) => Solvable(cur)

(***************************************************************************)
(* C17.  When the spanning tree is finished, the barrier-candidate set     *)
(* holds one entry (x, y, R) or (x, y, D), taken from the left or upper    *)
(* cell, for every edge between two adjacent cells that carries no pipe:   *)
(* on a non-wrapping board every edge with both cells on the board, those  *)
(* within the last row and the last column included; on a wrapping board   *)
(* the wrap-around edges too.  It holds no entry for an edge that carries  *)
(* a pipe nor for an edge that leaves a non-wrapping board.                *)
(***************************************************************************)
PipelessEdges(state) ==
    {<< g[1][1], g[1][2], g[2] >> :
        g \in {h \in Cells(state) \X {R, D} :
                  /\ ~Joined(state, h[1], h[2])
                  /\ ~LeavesBoard(state, h[1][1], h[1][2], h[2])}}

C17_CandidatesAreThePipelessEdges ==
    TreeFinished => ng.barriers = PipelessEdges(ng.state)

(***************************************************************************)
(* C18.  In every game state, the map compute_active returns marks the     *)
(* centre cell (width/2, height/2) active, also when the centre tile has   *)
(* no live connection to a neighbour.                                      *)
(***************************************************************************)
CentreActive(state) ==
    compute_active(state)[index(state, Centre(state)[1], Centre(state)[2])] # 0

C18_CentreIsActive ==
    ng.pc = "returned" => CentreActive(cur)

(***************************************************************************)
(* C19.  In every game new_game generates, the unshuffled network taken    *)
(* with the barrier array of the returned state has an active map that     *)
(* covers every cell: no barrier of the generation blocks a pipe of the    *)
(* network.                                                                *)
(***************************************************************************)
IntendedSolution(f) == [f.state EXCEPT !.tiles = f.unshuffled]

C19_SolutionIsRecognised ==
    ng.pc \in {"done", "returned"} => AllActive(IntendedSolution(ng))

(***************************************************************************)
(* C20.  On a non-wrapping board, every write of the border-barrier loops  *)
(* goes to an array offset y*width+x inside [0, width*height), also when   *)
(* width differs from height.                                              *)
(***************************************************************************)
C20_BorderWritesInBounds ==
    /\ ng.pc # "crash"
    /\ (ng.pc # "borders" /\ ~ng.state.wrapping) =>
          /\ ng.oob = {}
          /\ \A k \in 1..Len(BorderWrites(ng.state)) :
                InArray(ng.state, index(ng.state, BorderWrites(ng.state)[k][1],
                                                  BorderWrites(ng.state)[k][2]))
====
